---- MODULE Spec2Model ----
(***************************************************************************)
(* A model of the cross-exchange arbitrage executor: the signal handler    *)
(* (advanced_test_bot.py), the signal parser (telegram_monitor.py), the    *)
(* order manager (order_manager.py) and the price cache                    *)
(* (websocket_manager.py).                                                 *)
(*                                                                         *)
(* Units.  Python floats are modelled by exact integers:                   *)
(*   - prices are whole dollars, quantities whole tokens;                  *)
(*   - spreads are tenths of a percent (MIN_SPREAD = 3.0% is 30);          *)
(*   - realized P&L is in 1/PnlScale dollars, so that the 0.0007           *)
(*     commission of _calculate_and_record_pnl is the integer 7.           *)
(* Every asyncio task is a process whose steps are the code between two    *)
(* suspension points (awaits that really yield to the event loop).         *)
(***************************************************************************)
EXTENDS Integers, Sequences, FiniteSets, TLC

\* ------------------------------------------------------------ bounds
\* Number of signal messages delivered (one handler task is spawned per message).
NTasks == 1
\* The wall clock (whole seconds, int(time.time())) runs from 0 to MaxTime.
MaxTime == 1

\* ------------------------------------------------------------ config.py
LEVERAGE == 3
MAX_CONCURRENT_TRADES == 3
MIN_SPREAD == 30
MAX_MIN_NOTIONAL_USD == 4
TRADE_AMOUNT == 1
CLOSE_SPREAD == 5
MAX_ALLOWED_SPREAD == 500
SPREAD_SANITY_CHECK == TRUE
TRAILING_STOP_ENABLED == TRUE
MAX_HOLD_TIME == 6000
MAX_DAILY_LOSS == 8
\* Tickers are sequences of tokens; the blacklist holds bare tickers.
SYMBOL_BLACKLIST == {<<"AIA">>}
\* Per-ticker quantity multipliers, in tenths (0.5 is 5); keys are bare tickers.
RISKY_SYMBOLS == [s \in {<<"0G">>, <<"XNL">>, <<"MET">>, <<"PIGGY">>} |->
                    CASE s = <<"0G">> -> 5 [] s = <<"XNL">> -> 3
                      [] s = <<"MET">> -> 7 [] OTHER -> 6]
RiskScale == 10
\* net_pnl is kept in 1/PnlScale dollars; the commission rate 0.0007 is
\* CommissionNum / PnlScale.
PnlScale == 10000
CommissionNum == 7

Max(a, b) == IF a >= b THEN a ELSE b
Min(S) == CHOOSE x \in S : \A y \in S : x <= y

\* ------------------------------------------------------------ inputs
\* Task slots: enough for the largest environment below.
Tasks == 1..Max(NTasks, MAX_CONCURRENT_TRADES + 1)
Venues == {"bybit", "mexc"}
Prices == {1, 3}
Spreads == {29, 30, 500, 501}
\* The ticker after '#', and the optional ticker of '(COPY: ...)'.
HashSymbols == {<<"AIA">>, <<"FOO">>}
NoSym == <<>>
CopySymbols == {NoSym, <<"AIA", "_USDT">>}
\* What a message text may hold: '#TICKER', 'Spread: N%', 'Long VENUE: $P',
\* 'Short VENUE: $P', and the word 'aligned'.
SignalTokens == {"#", "Spread", "Long", "Short"}
\* A signal message, reduced to the fields the regular expressions extract:
\* the tokens it holds, the ticker after '#', the ticker of '(COPY: ...)', the
\* number after 'Spread:', and the venue and price of the 'Long' and of the
\* 'Short' line.
BaseMessage == [tokens |-> SignalTokens, hash |-> <<"FOO">>, copy |-> NoSym,
                spread |-> MIN_SPREAD,
                long |-> "bybit", lprice |-> 1, short |-> "mexc", sprice |-> 3]
\* The messages delivered: the base message with its spread, its tickers, its
\* prices (the short venue quoting the lowest price, the long venue any) or
\* its short venue varied.
Messages ==
    {[BaseMessage EXCEPT !.spread = s] : s \in Spreads}
    \cup {[BaseMessage EXCEPT !.hash = h, !.copy = c] :
              h \in HashSymbols, c \in CopySymbols}
    \cup {[BaseMessage EXCEPT !.lprice = p, !.sprice = Min(Prices)] : p \in Prices}
    \cup {[BaseMessage EXCEPT !.short = v] : v \in Venues}

\* ------------------------------------------------------------ telegram_monitor.py
\* str.replace(tok, ''): drop every occurrence of the token.
RECURSIVE Replace(_, _)
Replace(s, tok) ==
    IF s = <<>> THEN <<>>
    ELSE IF Head(s) = tok THEN Replace(Tail(s), tok)
    ELSE <<Head(s)>> \o Replace(Tail(s), tok)

\* raw_symbol.replace('_USDT', '').replace('USDT', '') + '-USDT'
NormalizeSymbol(raw) == Replace(Replace(raw, "_USDT"), "USDT") \o <<"-USDT">>

\* The prices dict, in insertion order: the long venue first, then the short
\* venue; a repeated key overwrites the value and keeps the first position.
PricesDict(m) ==
    IF ~({"Long", "Short"} \subseteq m.tokens) THEN <<>>
    ELSE IF m.long = m.short THEN << <<m.long, m.sprice>> >>
    ELSE << <<m.long, m.lprice>>, <<m.short, m.sprice>> >>

NoSignal == [ok |-> FALSE, symbol |-> NoSym, spread |-> 0, prices |-> <<>>]

\* _parse_message: None without '#TICKER', without 'Spread: N%', and unless
\* the dict holds two venues.
ParseMessage(m) ==
    LET raw == IF m.copy # NoSym THEN m.copy ELSE m.hash
        prices == PricesDict(m)
    IN IF "#" \notin m.tokens \/ "Spread" \notin m.tokens THEN NoSignal
       ELSE IF Len(prices) # 2 THEN NoSignal
       ELSE [ok |-> TRUE, symbol |-> NormalizeSymbol(raw),
             spread |-> m.spread, prices |-> prices]

\* The message texts the channel may deliver to the handler.
ParseInputs ==
    {[BaseMessage EXCEPT !.tokens = toks, !.copy = c, !.short = v] :
        toks \in SUBSET (SignalTokens \cup {"aligned"}),
        c \in CopySymbols, v \in Venues}

\* ------------------------------------------------------------ advanced_test_bot.py
\* min(prices, key=prices.get): the first key, in insertion order, whose value
\* is minimal; max(...) likewise for the maximal value.
MinKey(prices) ==
    IF prices[1][2] <= prices[2][2] THEN prices[1][1] ELSE prices[2][1]
MaxKey(prices) ==
    IF prices[1][2] >= prices[2][2] THEN prices[1][1] ELSE prices[2][1]
PriceOf(prices, exch) ==
    IF prices[1][1] = exch THEN prices[1][2] ELSE prices[2][2]

\* A gate whose lower bound is exclusive.
SpreadGateExclusive(spread) ==
    ~(spread <= MIN_SPREAD) /\ ~(SPREAD_SANITY_CHECK /\ spread > MAX_ALLOWED_SPREAD)
\* handle_signal's two early returns on the reported spread: TRUE when the
\* signal goes on to open_arbitrage.
SpreadGate(spread) ==
    /\ ~(spread < MIN_SPREAD)
    /\ ~(SPREAD_SANITY_CHECK /\ spread > MAX_ALLOWED_SPREAD)

\* ------------------------------------------------------------ order_manager.py
NoArgs == [symbol |-> NoSym, spread |-> 0, low_exch |-> "", high_exch |-> "",
           low_price |-> 0, high_price |-> 0]
\* An order as the venue holds it. st: "none" (never sent), "sent", "open"
\* (resting on the book), "rejected" (create_order raised), "canceled",
\* "filled". cancels counts the cancel requests made for it; live is the
\* venue's last traded price when the order was sent.
NoOrder == [venue |-> "", symbol |-> NoSym, side |-> "", qty |-> 0, price |-> 0,
            st |-> "none", cancels |-> 0, live |-> 0]
NoTrade == [symbol |-> NoSym, entry_spread |-> 0, low_exchange |-> "",
            high_exchange |-> "", entry_buy_price |-> 0, entry_sell_price |-> 0,
            quantity |-> 0, status |-> "none", entry_time |-> 0,
            max_spread_seen |-> 0, net_pnl |-> 0]
\* A market's limits as market() returns them; 0 stands for a missing or null
\* limit ("... or 0.0"), found = FALSE for a market that is not known.
MarketDetails == {[found |-> FALSE, cost_min |-> 0, amount_min |-> 0],
                  [found |-> TRUE, cost_min |-> 0, amount_min |-> 0],
                  [found |-> TRUE, cost_min |-> 5, amount_min |-> 1],
                  [found |-> TRUE, cost_min |-> 4, amount_min |-> 4]}

VARIABLES
    pc,             \* handler task t: "unborn", "start", "await_markets",
                    \* "await_orders", or the return it took: "ret_spread",
                    \* "ret_conditions", "ret_markets", "ret_notional",
                    \* "ret_opened", "ret_rollback"
    sig,            \* handler task t: the parsed signal handed to handle_signal
    args,           \* handler task t: the arguments of its open_arbitrage call
    orders,         \* the venues' books: orders[t][leg], the orders of task t's trade
    trades,         \* the trade dict created by task t (NoTrade before)
    mon,            \* monitor_trade task of trade t: "none", "sleep",
                    \* "await_close", "ended", "crashed" (ended by an exception)
    active_trades,  \* OrderManager.active_trades: trade id -> task whose dict it holds
    daily_pnl,      \* OrderManager.daily_pnl, in 1/PnlScale dollars
    signal_count,   \* ArbitrageBot.signal_count
    now,            \* the wall clock, whole seconds
    market,         \* the venues' last traded price (one quote per venue)
    closing,        \* monitor task t, from its call of close_arbitrage on: the
                    \* sample and the reason it closes for, and the trade
                    \* dict close_arbitrage found under its trade id
    om_exchanges    \* the keys of OrderManager.exchanges

omvars == <<pc, sig, args, orders, trades, mon, active_trades, daily_pnl,
            signal_count, now, market, closing, om_exchanges>>

\* WebSocketManager, for one symbol
VARIABLES
    is_running,     \* WebSocketManager._is_running
    exchanges,      \* the keys of WebSocketManager.exchanges
    watch_tasks,    \* the keys of WebSocketManager._watch_tasks
    watch,          \* the _watch_ticker_loop task of venue v: st "none",
                    \* "watching" (in watch_ticker), "backoff" (in sleep);
                    \* its retry_delay; the seconds left of its sleep
    ws_prices,      \* WebSocketManager.prices[symbol]: venue -> price, 0 = no entry
    ws_age,         \* seconds since ws_prices[v] was written (stops at MaxAge)
    reader          \* a get_price call: st "idle", "sleep" (the sleep after
                    \* subscribing), "polling", "returned"; its exchange; the
                    \* seconds left of its sleep and of its polling; the value
                    \* it returned (0 = None) and the age of the entry it read

wsvars == <<is_running, exchanges, watch_tasks, watch, ws_prices, ws_age, reader>>

\* SmartArbitrageBot (advanced_test_bot_old.py).
VARIABLES
    exchange_errors, \* venue -> the count of errors charged to the venue
    endpoint,        \* venue -> whether the venue's balance endpoint answers
    xpc,             \* where execute_arbitrage_trade stands
    opportunity,     \* execute_arbitrage_trade's opportunity
    trade_params,    \* calculate_minimal_trade_parameters' result
    margin,          \* the free balances the margin check read, -1 for None
    real_balances,   \* venue -> fetch_real_balances' latest report
    balance_log,     \* venue -> what fetch_balance logged for the balance loop
    health_log,      \* venue -> what check_exchange_health logged last
    minute           \* datetime.now().minute

oldvars == <<exchange_errors, endpoint, xpc, opportunity, trade_params, margin,
             real_balances, balance_log, health_log, minute>>

\* Order submission (OrderManager.create_limit_order of
\* arbitrage_bot/backup_order_manager.py, OrderManager.create_order of
\* order_manager.py) and the parsing of TelegramMonitor's handler.
VARIABLES
    connection_status, \* venue -> connection_status[venue]['connected']
    submit,            \* the submission call: its function, its venue, where it
                       \* stands, the attempt of its retry loop, the requests it
                       \* sent to the venue, the delays it slept, the error class
                       \* last raised, and whether it returned an order
    message,           \* the text of the last NewMessage event
    parsed             \* what _parse_message returned for it

sidevars == <<connection_status, submit, message, parsed>>

\* The exits of a trade, each taken alone.
VARIABLES
    exit_test,         \* one monitor_trade task: the trade dict it holds, the
                       \* seconds since the entry, the last sample it tested
                       \* and the close reason it found, and the samples it
                       \* tested before (a history; monitor_trade keeps none)
    ledger,            \* SmartArbitrageBot: daily_pnl, each venue's
                       \* exchange_balances[venue]['pnl_today'], and the last
                       \* line a finalization or the daily reset logged
    liquidation        \* monitor_liquidation's last run: what the position
                       \* query of each leg met, and what it did

exitvars == <<exit_test, ledger, liquidation>>

Legs == {"buy", "sell", "close_sell", "close_buy"}
NoOrders == [l \in Legs |-> NoOrder]
NoClosing == [target |-> 0, low_px |-> 0, high_px |-> 0, reason |-> ""]

InitOM ==
    /\ pc = [t \in Tasks |-> "unborn"]
    /\ sig = [t \in Tasks |-> NoSignal]
    /\ args = [t \in Tasks |-> NoArgs]
    /\ orders = [t \in Tasks |-> NoOrders]
    /\ trades = [t \in Tasks |-> NoTrade]
    /\ mon = [t \in Tasks |-> "none"]
    /\ active_trades = << >>
    /\ daily_pnl = 0
    /\ signal_count = 0
    /\ now = 0
    /\ market = [v \in Venues |-> Min(Prices)]
    /\ closing = [t \in Tasks |-> NoClosing]
    /\ om_exchanges = Venues

\* time passes
Tick ==
    /\ now < MaxTime
    /\ now' = now + 1
    /\ UNCHANGED <<pc, sig, args, orders, trades, mon, active_trades, daily_pnl,
                   signal_count, market>>
    /\ UNCHANGED <<closing, om_exchanges>>
    /\ UNCHANGED wsvars
    /\ UNCHANGED oldvars
    /\ UNCHANGED sidevars
    /\ UNCHANGED exitvars

\* A venue trades at a new price.
MarketMove(v, p) ==
    /\ market[v] # p
    /\ market' = [market EXCEPT ![v] = p]
    /\ UNCHANGED <<pc, sig, args, orders, trades, mon, active_trades, daily_pnl,
                   signal_count, now>>
    /\ UNCHANGED <<closing, om_exchanges>>
    /\ UNCHANGED wsvars
    /\ UNCHANGED oldvars
    /\ UNCHANGED sidevars
    /\ UNCHANGED exitvars

\* TelegramMonitor.start.handler: a message arrives while the bot runs; a
\* handler task is created for it when it parses. Task slots are used in order.
Arrive(t, m) ==
    /\ om_exchanges # {}
    /\ pc[t] = "unborn"
    /\ \A u \in Tasks : u < t => pc[u] # "unborn"
    /\ LET result == ParseMessage(m) IN
        IF result.ok
        THEN /\ pc' = [pc EXCEPT ![t] = "start"]
             /\ sig' = [sig EXCEPT ![t] = result]
        ELSE UNCHANGED <<pc, sig>>
    /\ UNCHANGED <<args, orders, trades, mon, active_trades, daily_pnl,
                   signal_count, now, market>>
    /\ UNCHANGED <<closing, om_exchanges>>
    /\ UNCHANGED wsvars
    /\ UNCHANGED oldvars
    /\ UNCHANGED sidevars
    /\ UNCHANGED exitvars

\* The admission test at the top of open_arbitrage: TRUE when the call goes on.
OpenConditionsMet(symbol) ==
    ~(\/ symbol \in SYMBOL_BLACKLIST
      \/ Cardinality(DOMAIN active_trades) >= MAX_CONCURRENT_TRADES
      \/ daily_pnl <= -(MAX_DAILY_LOSS * PnlScale))

\* ArbitrageBot.handle_signal up to the first suspension of open_arbitrage
\* (the gather of the two get_market_details calls).
HandleSignal(t) ==
    /\ pc[t] = "start"
    /\ signal_count' = signal_count + 1
    /\ LET s == sig[t]
           low_exch == MinKey(s.prices)
           high_exch == MaxKey(s.prices)
       IN IF ~SpreadGate(s.spread)
          THEN /\ pc' = [pc EXCEPT ![t] = "ret_spread"]
               /\ UNCHANGED args
          ELSE IF ~OpenConditionsMet(s.symbol)
          THEN /\ pc' = [pc EXCEPT ![t] = "ret_conditions"]
               /\ UNCHANGED args
          ELSE /\ pc' = [pc EXCEPT ![t] = "await_markets"]
               /\ args' = [args EXCEPT ![t] =
                     [symbol |-> s.symbol, spread |-> s.spread,
                      low_exch |-> low_exch, high_exch |-> high_exch,
                      low_price |-> PriceOf(s.prices, low_exch),
                      high_price |-> PriceOf(s.prices, high_exch)]]
    /\ UNCHANGED <<sig, orders, trades, mon, active_trades, daily_pnl, now, market>>
    /\ UNCHANGED <<closing, om_exchanges>>
    /\ UNCHANGED wsvars
    /\ UNCHANGED oldvars
    /\ UNCHANGED sidevars
    /\ UNCHANGED exitvars

\* The quantity open_arbitrage trades: the larger of the two minimum amounts,
\* else TRADE_AMOUNT * LEVERAGE / low_price (exact for the prices of the
\* model), scaled when the symbol is a key of RISKY_SYMBOLS.
Quantity(symbol, low_mkt, high_mkt, low_price) ==
    LET min_qty == Max(low_mkt.amount_min, high_mkt.amount_min)
        quantity == IF min_qty > 0 THEN min_qty
                    ELSE (TRADE_AMOUNT * LEVERAGE) \div low_price
    IN IF symbol \in DOMAIN RISKY_SYMBOLS
       THEN (quantity * RISKY_SYMBOLS[symbol]) \div RiskScale
       ELSE quantity

\* The min-notional test of open_arbitrage: TRUE when the trade is abandoned.
MinNotionalExceeds(low_mkt, high_mkt) ==
    Max(low_mkt.cost_min, high_mkt.cost_min) > MAX_MIN_NOTIONAL_USD

\* The request create_order sends to the venue.
NewOrder(venue, symbol, side, quantity, price) ==
    [venue |-> venue, symbol |-> symbol, side |-> side, qty |-> quantity,
     price |-> price, st |-> "sent", cancels |-> 0, live |-> market[venue]]

\* open_arbitrage from the return of the market details to the suspension on
\* the two create_order calls: both opening orders are sent.
MarketsDone(t, low_mkt, high_mkt) ==
    /\ pc[t] = "await_markets"
    /\ low_mkt.found => args[t].low_exch \in om_exchanges
    /\ high_mkt.found => args[t].high_exch \in om_exchanges
    /\ LET a == args[t]
           quantity == Quantity(a.symbol, low_mkt, high_mkt, a.low_price)
       IN IF ~low_mkt.found \/ ~high_mkt.found
          THEN /\ pc' = [pc EXCEPT ![t] = "ret_markets"]
               /\ args' = [args EXCEPT ![t] = NoArgs]
               /\ UNCHANGED orders
          ELSE IF MinNotionalExceeds(low_mkt, high_mkt)
          THEN /\ pc' = [pc EXCEPT ![t] = "ret_notional"]
               /\ args' = [args EXCEPT ![t] = NoArgs]
               /\ UNCHANGED orders
          ELSE /\ pc' = [pc EXCEPT ![t] = "await_orders"]
               /\ orders' = [orders EXCEPT
                     ![t]["buy"] = NewOrder(a.low_exch, a.symbol, "buy",
                                            quantity, a.low_price),
                     ![t]["sell"] = NewOrder(a.high_exch, a.symbol, "sell",
                                             quantity, a.high_price)]
               /\ UNCHANGED args
    /\ UNCHANGED <<sig, trades, mon, active_trades, daily_pnl, signal_count,
                   now, market>>
    /\ UNCHANGED <<closing, om_exchanges>>
    /\ UNCHANGED wsvars
    /\ UNCHANGED oldvars
    /\ UNCHANGED sidevars
    /\ UNCHANGED exitvars

\* f"{symbol.split('-')[0]}-{int(time.time())}"
TradeId(symbol, time) == <<Head(symbol), time>>

\* dict assignment d[k] = v
Put(d, k, v) == [x \in (DOMAIN d) \cup {k} |-> IF x = k THEN v ELSE d[x]]

\* "if ex_name not in self.exchanges: return None" (create_order; cancel_order
\* returns False, get_market_details None): a call succeeds only on a venue
\* that is connected.
Connected(o) == o.venue \in om_exchanges

\* create_order's outcome on the venue: the order rests on the book, or the
\* request raised and None was returned.
Placed(o, ok) == [o EXCEPT !.st = IF ok THEN "open" ELSE "rejected"]
\* cancel_order on an order that was placed: cancelled, or the call failed.
Cancelled(o, ok) == [o EXCEPT !.st = IF ok THEN "canceled" ELSE "open",
                              !.cancels = @ + 1]

\* A registration test that is satisfied by a single accepted order.
EitherPlaced(buy_ok, sell_ok) == buy_ok \/ sell_ok
\* "if buy_order and sell_order"
BothPlaced(buy_ok, sell_ok) == buy_ok /\ sell_ok

\* open_arbitrage after both create_order calls returned: the trade is
\* registered and its monitor task created, or the surviving order is
\* cancelled.
OrdersDone(t, buy_ok, sell_ok, cancel_ok) ==
    /\ pc[t] = "await_orders"
    /\ buy_ok => Connected(orders[t]["buy"])
    /\ sell_ok => Connected(orders[t]["sell"])
    /\ cancel_ok => om_exchanges # {}
    /\ args' = [args EXCEPT ![t] = NoArgs]
    /\ LET a == args[t]
           buy_order == Placed(orders[t]["buy"], buy_ok)
           sell_order == Placed(orders[t]["sell"], sell_ok)
       IN IF BothPlaced(buy_ok, sell_ok)
          THEN /\ pc' = [pc EXCEPT ![t] = "ret_opened"]
               /\ orders' = [orders EXCEPT ![t]["buy"] = buy_order,
                                           ![t]["sell"] = sell_order]
               /\ active_trades' = Put(active_trades, TradeId(a.symbol, now), t)
               /\ trades' = [trades EXCEPT ![t] =
                     [symbol |-> a.symbol, entry_spread |-> a.spread,
                      low_exchange |-> a.low_exch, high_exchange |-> a.high_exch,
                      entry_buy_price |-> buy_order.price,
                      entry_sell_price |-> sell_order.price,
                      quantity |-> buy_order.qty, status |-> "open",
                      entry_time |-> now, max_spread_seen |-> a.spread,
                      net_pnl |-> 0]]
               /\ mon' = [mon EXCEPT ![t] = "sleep"]
          ELSE /\ pc' = [pc EXCEPT ![t] = "ret_rollback"]
               /\ orders' = [orders EXCEPT
                     ![t]["buy"] = IF buy_ok THEN Cancelled(buy_order, cancel_ok)
                                   ELSE buy_order,
                     ![t]["sell"] = IF sell_ok THEN Cancelled(sell_order, cancel_ok)
                                    ELSE sell_order]
               /\ UNCHANGED <<active_trades, trades, mon>>
    /\ UNCHANGED <<sig, daily_pnl, signal_count, now, market>>
    /\ UNCHANGED <<closing, om_exchanges>>
    /\ UNCHANGED wsvars
    /\ UNCHANGED oldvars
    /\ UNCHANGED sidevars
    /\ UNCHANGED exitvars

\* monitor_trade's test of one sample: the close reason, "" for none.
\* current_spread = (low_px - high_px) / high_px * 100 is compared without
\* dividing: spreads are tenths of a percent, so x < c is
\* (low_px - high_px) * 1000 < c * high_px.
CloseReason(trade, low_px, high_px, time) ==
    LET duration == time - trade.entry_time
        spread_num == (low_px - high_px) * 1000
    IN IF duration > MAX_HOLD_TIME THEN "timeout"
       ELSE IF spread_num < CLOSE_SPREAD * high_px THEN "spread_collapse"
       ELSE IF TRAILING_STOP_ENABLED
               /\ 2 * spread_num < trade.max_spread_seen * high_px
            THEN "trailing_stop"
       ELSE ""

\* A price is missing when get_price returned None (or 0.0): "not px".
Missing(px) == px = 0

\* The id under which task t registered its trade: the trade_id its monitor
\* and close_arbitrage look the trade up by.
IdOf(t) == TradeId(trades[t].symbol, trades[t].entry_time)

\* A close_arbitrage that returns only when the id is not in the registry.
CloseRefusedIfAbsent(trade) == trade.status = "none"
\* close_arbitrage's first test, "if not trade or trade['status'] != 'open':
\* return"; the next statement sets the status to 'closing', before the
\* first await.
CloseRefused(trade) == trade.status # "open"

\* One turn of monitor_trade's loop after its sleep. The monitor of task t holds
\* the dict it found under its id when it started, taken to be trades[t] (the
\* monitor's first step is taken together with its creation). The two prices
\* are read (0 is a missing price); when a close reason is found,
\* close_arbitrage runs up to its suspension on the two closing create_order
\* calls, on the dict the registry holds under the id NOW. close_arbitrage
\* reads both prices again: sell_price, the low venue's, is a fresh sample;
\* buy_price, the high venue's, is taken equal to the monitor's sample.
MonitorTick(t, low_px, high_px, sell_price) ==
    /\ mon[t] = "sleep"
    /\ LET trade == trades[t]
           buy_price == high_px
           reason == CloseReason(trade, low_px, high_px, now)
           target == active_trades[IdOf(t)]
           found == trades[target]
       IN IF trade.status # "open"
          THEN /\ mon' = [mon EXCEPT ![t] = "ended"]
               /\ UNCHANGED <<trades, orders, closing>>
          ELSE IF Missing(low_px) \/ Missing(high_px) \/ reason = ""
          THEN UNCHANGED <<mon, trades, orders, closing>>
          ELSE IF CloseRefused(found)
          THEN /\ mon' = [mon EXCEPT ![t] = "ended"]
               /\ UNCHANGED <<trades, orders, closing>>
          ELSE IF Missing(sell_price) \/ Missing(buy_price)
          THEN /\ trades' = [trades EXCEPT ![target].status = "error_closing"]
               /\ mon' = [mon EXCEPT ![t] = "ended"]
               /\ UNCHANGED <<orders, closing>>
          ELSE /\ trades' = [trades EXCEPT ![target].status = "closing"]
               /\ mon' = [mon EXCEPT ![t] = "await_close"]
               /\ closing' = [closing EXCEPT ![t] =
                     [target |-> target, low_px |-> low_px, high_px |-> high_px,
                      reason |-> reason]]
               /\ orders' = [orders EXCEPT
                     ![target]["close_sell"] =
                         NewOrder(found.low_exchange, found.symbol, "sell",
                                  found.quantity, sell_price),
                     ![target]["close_buy"] =
                         NewOrder(found.high_exchange, found.symbol, "buy",
                                  found.quantity, buy_price)]
    /\ UNCHANGED <<pc, sig, args, active_trades, daily_pnl, signal_count, now,
                   market>>
    /\ UNCHANGED om_exchanges
    /\ UNCHANGED wsvars
    /\ UNCHANGED oldvars
    /\ UNCHANGED sidevars
    /\ UNCHANGED exitvars

\* A net_pnl that charges commission on the two entry orders only.
NetPnlEntryFees(trade, exit_sell_price, exit_buy_price) ==
    LET pnl_long == (exit_sell_price - trade.entry_buy_price) * trade.quantity
        pnl_short == (trade.entry_sell_price - exit_buy_price) * trade.quantity
        gross_pnl == pnl_long + pnl_short
        commission == (trade.entry_buy_price + trade.entry_sell_price)
                      * trade.quantity * CommissionNum
    IN gross_pnl * PnlScale - commission

\* _calculate_and_record_pnl's net_pnl, in 1/PnlScale dollars.
NetPnl(trade, exit_sell_price, exit_buy_price) ==
    LET pnl_long == (exit_sell_price - trade.entry_buy_price) * trade.quantity
        pnl_short == (trade.entry_sell_price - exit_buy_price) * trade.quantity
        gross_pnl == pnl_long + pnl_short
        commission == (trade.entry_buy_price + trade.entry_sell_price
                       + exit_sell_price + exit_buy_price)
                      * trade.quantity * CommissionNum
    IN gross_pnl * PnlScale - commission

\* close_arbitrage after both closing create_order calls returned. With both
\* accepted, _calculate_and_record_pnl books the P&L and marks the trade
\* closed; its last statement, self.active_trades.pop(trade_id, None), names
\* a variable the function does not have, so it raises NameError: the
\* registry keeps the entry and the monitor task ends with the exception.
CloseOrdersDone(t, sell_ok, buy_ok) ==
    /\ mon[t] = "await_close"
    /\ sell_ok => Connected(orders[closing[t].target]["close_sell"])
    /\ buy_ok => Connected(orders[closing[t].target]["close_buy"])
    /\ LET target == closing[t].target
           sell_order == Placed(orders[target]["close_sell"], sell_ok)
           buy_order == Placed(orders[target]["close_buy"], buy_ok)
           net_pnl == NetPnl(trades[target], sell_order.price, buy_order.price)
       IN /\ orders' = [orders EXCEPT ![target]["close_sell"] = sell_order,
                                      ![target]["close_buy"] = buy_order]
          /\ IF sell_ok /\ buy_ok
             THEN /\ daily_pnl' = daily_pnl + net_pnl
                  /\ trades' = [trades EXCEPT ![target].status = "closed",
                                              ![target].net_pnl = net_pnl]
                  /\ mon' = [mon EXCEPT ![t] = "crashed"]
             ELSE /\ trades' = [trades EXCEPT ![target].status = "error_closing"]
                  /\ mon' = [mon EXCEPT ![t] = "ended"]
                  /\ UNCHANGED daily_pnl
    /\ closing' = [closing EXCEPT ![t] = NoClosing]
    /\ UNCHANGED <<pc, sig, args, active_trades, signal_count, now, market>>
    /\ UNCHANGED om_exchanges
    /\ UNCHANGED wsvars
    /\ UNCHANGED oldvars
    /\ UNCHANGED sidevars
    /\ UNCHANGED exitvars

\* The venue fills a resting order.
Fill(t, leg) ==
    /\ orders[t][leg].st = "open"
    /\ orders' = [orders EXCEPT ![t][leg].st = "filled"]
    /\ UNCHANGED <<pc, sig, args, trades, mon, active_trades, daily_pnl,
                   signal_count, now, market>>
    /\ UNCHANGED <<closing, om_exchanges>>
    /\ UNCHANGED wsvars
    /\ UNCHANGED oldvars
    /\ UNCHANGED sidevars
    /\ UNCHANGED exitvars

\* ArbitrageBot.stop, in one step: the Telegram monitor is stopped and
\* OrderManager.close closes and clears the exchanges. Handler and monitor
\* tasks are left as they are.
Stop ==
    /\ om_exchanges # {}
    /\ om_exchanges' = {}
    /\ UNCHANGED <<pc, sig, args, orders, trades, mon, active_trades, daily_pnl,
                   signal_count, now, market, closing>>
    /\ UNCHANGED wsvars
    /\ UNCHANGED oldvars
    /\ UNCHANGED sidevars
    /\ UNCHANGED exitvars

\* More than MAX_HOLD_TIME seconds pass at once.
Hold ==
    /\ now <= MaxTime
    /\ now' = now + MAX_HOLD_TIME + 1
    /\ UNCHANGED <<pc, sig, args, orders, trades, mon, active_trades, daily_pnl,
                   signal_count, market, closing, om_exchanges>>
    /\ UNCHANGED wsvars
    /\ UNCHANGED oldvars
    /\ UNCHANGED sidevars
    /\ UNCHANGED exitvars

\* "datetime.utcnow()" as a date: the days since the start.
UtcDate(seconds) == seconds \div (24 * 3600)

\* A day passes while no signal is being handled and no trade is open or
\* closing. No code runs at the change of the date.
Midnight ==
    /\ now <= MaxTime
    /\ \A t \in Tasks : pc[t] \notin {"start", "await_markets", "await_orders"}
    /\ \A t \in Tasks : trades[t].status \notin {"open", "closing"}
    /\ now' = now + 24 * 3600
    /\ UNCHANGED <<pc, sig, args, orders, trades, mon, active_trades, daily_pnl,
                   signal_count, market, closing, om_exchanges>>
    /\ UNCHANGED wsvars
    /\ UNCHANGED oldvars
    /\ UNCHANGED sidevars
    /\ UNCHANGED exitvars

\* The handlers of an environment that delivers at most Cardinality(T)
\* messages drawn from Msgs and answers get_market_details from Mkts.
Opening(T, Msgs, Mkts) ==
    \/ Tick
    \/ \E t \in T, m \in Msgs : Arrive(t, m)
    \/ \E t \in T : HandleSignal(t)
    \/ \E t \in T, low_mkt \in Mkts, high_mkt \in Mkts :
          MarketsDone(t, low_mkt, high_mkt)
    \/ \E t \in T, buy_ok \in BOOLEAN, sell_ok \in BOOLEAN, cancel_ok \in BOOLEAN :
          OrdersDone(t, buy_ok, sell_ok, cancel_ok)

\* The monitors of the trades of T, with get_price answering from Pxs.
Monitoring(T, Pxs) ==
    \/ \E t \in T, low_px \in Pxs \cup {0}, high_px \in Pxs \cup {0}, sell_price \in Pxs :
          MonitorTick(t, low_px, high_px, sell_price)
    \/ \E t \in T, sell_ok \in BOOLEAN, buy_ok \in BOOLEAN :
          CloseOrdersDone(t, sell_ok, buy_ok)

\* ------------------------------------------------------ websocket_manager.py
WsSymbol == <<"FOO", "-USDT">>
\* "retry_delay = min(retry_delay * 2, 8)"
RETRY_DELAY_MAX == 8
\* get_price's default timeout
GET_PRICE_TIMEOUT == 5
\* The age, in seconds, up to which a quote counts as fresh.
FreshnessWindow == 3
MaxAge == FreshnessWindow + 1

NoWatch == [st |-> "none", retry_delay |-> 1, sleep |-> 0, tasks |-> 0]
\* A get_price call: fetches counts the REST fetch_ticker requests it has made.
IdleReader == [st |-> "idle", exchange |-> "", sleep |-> 0, left |-> 0,
               result |-> 0, age |-> 0, fetches |-> 0]

InitWS ==
    /\ is_running = FALSE
    /\ exchanges = {}
    /\ watch_tasks = {}
    /\ watch = [v \in Venues |-> NoWatch]
    /\ ws_prices = [v \in Venues |-> 0]
    /\ ws_age = [v \in Venues |-> 0]
    /\ reader = IdleReader

\* WebSocketManager.start: every enabled exchange is initialised.
WsStart ==
    /\ ~is_running
    /\ is_running' = TRUE
    /\ exchanges' = Venues
    /\ UNCHANGED <<watch_tasks, watch, ws_prices, ws_age, reader>>
    /\ UNCHANGED omvars
    /\ UNCHANGED oldvars
    /\ UNCHANGED sidevars
    /\ UNCHANGED exitvars

\* A subscribe that creates its tasks whether or not the symbol has some.
NeverSubscribed(symbol) == FALSE

\* "symbol in self._watch_tasks"
AlreadySubscribed(symbol) == symbol \in watch_tasks

\* subscribe(symbol), which has no suspension point: nothing when the manager
\* is not running or the symbol has its tasks; otherwise one new
\* _watch_ticker_loop task per exchange.
SubscribeSymbol ==
    IF ~is_running \/ AlreadySubscribed(WsSymbol)
    THEN UNCHANGED <<watch_tasks, watch>>
    ELSE /\ watch_tasks' = watch_tasks \cup {WsSymbol}
         /\ watch' = [v \in Venues |->
                         IF v \in exchanges
                         THEN [NoWatch EXCEPT !.st = "watching",
                                              !.tasks = watch[v].tasks + 1]
                         ELSE watch[v]]

\* A subscribe(symbol) call of its own, as made by another get_price call
\* while the first one sleeps or polls.
Subscribe ==
    /\ SubscribeSymbol
    /\ watch' # watch
    /\ UNCHANGED <<is_running, exchanges, ws_prices, ws_age, reader>>
    /\ UNCHANGED omvars
    /\ UNCHANGED oldvars
    /\ UNCHANGED sidevars
    /\ UNCHANGED exitvars

\* get_price up to its first suspension: an unsubscribed symbol is subscribed
\* and the call sleeps a second; for a subscribed one the polling starts.
GetPrice(exchange) ==
    /\ reader.st \in {"idle", "returned"}
    /\ IF WsSymbol \notin watch_tasks
       THEN /\ reader' = [IdleReader EXCEPT !.st = "sleep", !.exchange = exchange,
                                            !.sleep = 1]
            /\ SubscribeSymbol
       ELSE /\ reader' = [IdleReader EXCEPT !.st = "polling", !.exchange = exchange,
                                            !.left = GET_PRICE_TIMEOUT]
            /\ UNCHANGED <<watch_tasks, watch>>
    /\ UNCHANGED <<is_running, exchanges, ws_prices, ws_age>>
    /\ UNCHANGED omvars
    /\ UNCHANGED oldvars
    /\ UNCHANGED sidevars
    /\ UNCHANGED exitvars

\* get_price after "await asyncio.sleep(1)": the deadline is set.
GetPriceWake ==
    /\ reader.st = "sleep"
    /\ reader.sleep = 0
    /\ reader' = [reader EXCEPT !.st = "polling", !.left = GET_PRICE_TIMEOUT]
    /\ UNCHANGED <<is_running, exchanges, watch_tasks, watch, ws_prices, ws_age>>
    /\ UNCHANGED omvars
    /\ UNCHANGED oldvars
    /\ UNCHANGED sidevars
    /\ UNCHANGED exitvars

\* get_price's polling loop: before the deadline a cached price is returned as
\* it is; at the deadline None is returned, no other request being made.
GetPricePoll ==
    /\ reader.st = "polling"
    /\ \/ /\ reader.left > 0
          /\ ws_prices[reader.exchange] # 0
          /\ reader' = [reader EXCEPT !.st = "returned",
                                      !.result = ws_prices[reader.exchange],
                                      !.age = ws_age[reader.exchange]]
       \/ /\ reader.left = 0
          /\ reader' = [reader EXCEPT !.st = "returned", !.result = 0, !.age = 0]
    /\ UNCHANGED <<is_running, exchanges, watch_tasks, watch, ws_prices, ws_age>>
    /\ UNCHANGED omvars
    /\ UNCHANGED oldvars
    /\ UNCHANGED sidevars
    /\ UNCHANGED exitvars

\* _watch_ticker_loop: watch_ticker returns a ticker whose 'last' is price
\* (0 = None). A price is written to the cache; retry_delay is reset.
WatchTicker(v, price) ==
    /\ is_running
    /\ watch[v].st = "watching"
    /\ IF price # 0
       THEN /\ ws_prices' = [ws_prices EXCEPT ![v] = price]
            /\ ws_age' = [ws_age EXCEPT ![v] = 0]
       ELSE UNCHANGED <<ws_prices, ws_age>>
    /\ watch' = [watch EXCEPT ![v].retry_delay = 1]
    /\ UNCHANGED <<is_running, exchanges, watch_tasks, reader>>
    /\ UNCHANGED omvars
    /\ UNCHANGED oldvars
    /\ UNCHANGED sidevars
    /\ UNCHANGED exitvars

\* _watch_ticker_loop: watch_ticker raises; the task sleeps retry_delay.
WatchFail(v) ==
    /\ is_running
    /\ watch[v].st = "watching"
    /\ watch' = [watch EXCEPT ![v].st = "backoff", ![v].sleep = watch[v].retry_delay]
    /\ UNCHANGED <<is_running, exchanges, watch_tasks, ws_prices, ws_age, reader>>
    /\ UNCHANGED omvars
    /\ UNCHANGED oldvars
    /\ UNCHANGED sidevars
    /\ UNCHANGED exitvars

\* A backoff that doubles without a cap.
BackoffUncapped(retry_delay) == retry_delay * 2

\* "retry_delay = min(retry_delay * 2, 8)"
Backoff(retry_delay) ==
    IF retry_delay * 2 < RETRY_DELAY_MAX THEN retry_delay * 2 ELSE RETRY_DELAY_MAX

\* _watch_ticker_loop after the sleep: retry_delay doubles up to its cap and
\* the loop watches again.
WatchWake(v) ==
    /\ watch[v].st = "backoff"
    /\ watch[v].sleep = 0
    /\ watch' = [watch EXCEPT
          ![v].retry_delay = Backoff(@),
          ![v].st = IF is_running THEN "watching" ELSE "none"]
    /\ UNCHANGED <<is_running, exchanges, watch_tasks, ws_prices, ws_age, reader>>
    /\ UNCHANGED omvars
    /\ UNCHANGED oldvars
    /\ UNCHANGED sidevars
    /\ UNCHANGED exitvars

\* WebSocketManager.close: the watch tasks are cancelled, the exchanges, the
\* cache and the subscriptions cleared.
WsClose ==
    /\ is_running
    /\ is_running' = FALSE
    /\ watch' = [v \in Venues |-> NoWatch]
    /\ exchanges' = {}
    /\ ws_prices' = [v \in Venues |-> 0]
    /\ ws_age' = [v \in Venues |-> 0]
    /\ watch_tasks' = {}
    /\ UNCHANGED reader
    /\ UNCHANGED omvars
    /\ UNCHANGED oldvars
    /\ UNCHANGED sidevars
    /\ UNCHANGED exitvars

\* A second passes for the manager's tasks. A task whose sleep is over, and a
\* get_price call that can return, run before the next second.
WsTick ==
    /\ \A v \in Venues : ~(watch[v].st = "backoff" /\ watch[v].sleep = 0)
    /\ ~(reader.st = "sleep" /\ reader.sleep = 0)
    /\ ~(reader.st = "polling"
         /\ (reader.left = 0 \/ ws_prices[reader.exchange] # 0))
    /\ watch' = [v \in Venues |->
                    [watch[v] EXCEPT !.sleep = IF @ > 0 THEN @ - 1 ELSE 0]]
    /\ ws_age' = [v \in Venues |->
                    IF ws_prices[v] # 0 /\ ws_age[v] < MaxAge
                    THEN ws_age[v] + 1 ELSE ws_age[v]]
    /\ reader' = [reader EXCEPT !.sleep = IF @ > 0 THEN @ - 1 ELSE 0,
                                !.left = IF reader.st = "polling" /\ @ > 0
                                         THEN @ - 1 ELSE @]
    /\ watch' # watch \/ ws_age' # ws_age \/ reader' # reader
    /\ UNCHANGED <<is_running, exchanges, watch_tasks, ws_prices>>
    /\ UNCHANGED omvars
    /\ UNCHANGED oldvars
    /\ UNCHANGED sidevars
    /\ UNCHANGED exitvars

\* The manager with the venues' tickers quoting prices from Pxs.
Streaming(Pxs) ==
    \/ WsStart
    \/ Subscribe
    \/ \E exchange \in Venues : GetPrice(exchange)
    \/ GetPriceWake
    \/ GetPricePoll
    \/ \E v \in Venues, price \in Pxs \cup {0} : WatchTicker(v, price)
    \/ \E v \in Venues : WatchFail(v)
    \/ \E v \in Venues : WatchWake(v)
    \/ WsClose
    \/ WsTick

\* ------------------------------------------------- advanced_test_bot_old.py
\* SmartArbitrageBot, the earlier bot: its per-venue error counters, its margin
\* check, its balance loop and its health check.
max_errors_before_disable == 15
health_check_interval == 120
max_retries == 3
\* Balances are in 1/BalanceScale dollars.
BalanceScale == 10
\* The free USDT balances a venue reports.
Frees == {0, 5, 20}
\* An attempt of fetch_balance that raised.
Error == -1
\* None, and fetch_balance's default_balance.
NoBalance == [free |-> -1]
default_balance == [free |-> 0]
\* The venues the order manager holds an exchange object for.
Initialised == Venues
\* The signals' opportunities: buy on one venue at 1, sell on the other at 3.
Opportunities ==
    {[long_exchange |-> l, short_exchange |-> h, long_price |-> 1, short_price |-> 3] :
        <<l, h>> \in {<<"bybit", "mexc">>, <<"mexc", "bybit">>}}
NoOpportunity == [long_exchange |-> "", short_exchange |-> "", long_price |-> 0,
                  short_price |-> 0]
\* calculate_minimal_trade_parameters' trade_volume_usdt, in dollars.
Volumes == {3}
NoParams == [volume_usdt |-> 0, quantity_long |-> 0, quantity_short |-> 0]
NoMargin == [long_free |-> -1, short_free |-> -1]
NoReport == [available |-> 0, real_data |-> FALSE]

\* The bot after __init__, started in minute m of the hour.
InitOldAt(m) ==
    /\ exchange_errors = [v \in Venues |-> 0]
    /\ endpoint = [v \in Venues |-> TRUE]
    /\ xpc = "idle"
    /\ opportunity = NoOpportunity
    /\ trade_params = NoParams
    /\ margin = NoMargin
    /\ real_balances = [v \in Venues |-> NoReport]
    /\ balance_log = [v \in Venues |-> ""]
    /\ health_log = [v \in Venues |-> ""]
    /\ minute = m

InitOld == InitOldAt(0)

\* "self.exchange_errors[...] >= self.max_errors_before_disable".
Disabled(v) == exchange_errors[v] >= max_errors_before_disable

\* A balance dict or None in a condition: None is false, a non-empty dict true.
Truthy(balance) == balance # NoBalance

\* OrderManager.fetch_balance of the earlier order manager: None for a venue
\* without exchange object; otherwise up to max_retries attempts, the first
\* answer that is not an error is returned, and when every attempt raised,
\* default_balance is returned. log is the function's last log line.
RECURSIVE FetchBalance(_, _, _)
FetchBalance(exchange_name, answers, attempt) ==
    IF exchange_name \notin Initialised
    THEN [balance |-> NoBalance, log |-> "not initialised"]
    ELSE IF attempt > max_retries
    THEN [balance |-> default_balance, log |-> "exhausted"]
    ELSE IF answers[attempt] # Error
    THEN [balance |-> [free |-> answers[attempt]], log |-> "balance"]
    ELSE FetchBalance(exchange_name, answers, attempt + 1)

\* The answers venue v gives to the attempts of one fetch_balance call: errors
\* throughout while its endpoint is down; one balance, at once or after a
\* first error, while it is up.
NoAnswers == [i \in 1..max_retries |-> Error]
UpAnswers ==
    {[i \in 1..max_retries |-> free] : free \in Frees}
    \cup {[i \in 1..max_retries |-> IF i = 1 THEN Error ELSE free] : free \in Frees}
Answers(v) == IF endpoint[v] THEN UpAnswers ELSE {NoAnswers}

\* check_real_margin_availability: "available_balance >= quantity / LEVERAGE"
\* for a truthy balance, True otherwise.
CheckRealMarginAvailability(balance, qty) ==
    IF Truthy(balance)
    THEN balance.free * LEVERAGE >= qty * BalanceScale
    ELSE TRUE

\* The venue's balance endpoint stops answering, and answers again.
EndpointDown(v) ==
    /\ endpoint[v]
    /\ endpoint' = [endpoint EXCEPT ![v] = FALSE]
    /\ UNCHANGED <<exchange_errors, xpc, opportunity, trade_params, margin,
                   real_balances, balance_log, health_log, minute>>
    /\ UNCHANGED <<omvars, wsvars, sidevars, exitvars>>

EndpointUp(v) ==
    /\ ~endpoint[v]
    /\ endpoint' = [endpoint EXCEPT ![v] = TRUE]
    /\ UNCHANGED <<exchange_errors, xpc, opportunity, trade_params, margin,
                   real_balances, balance_log, health_log, minute>>
    /\ UNCHANGED <<omvars, wsvars, sidevars, exitvars>>

\* handle_arbitrage_signal for another message: venue v is among the
\* active_exchanges, its price request fails and the error is charged to it.
\* The choice of active_exchanges and the charge are taken as one step.
PriceError(v) ==
    /\ ~Disabled(v)
    /\ exchange_errors' = [exchange_errors EXCEPT ![v] = @ + 1]
    /\ UNCHANGED <<endpoint, xpc, opportunity, trade_params, margin, real_balances,
                   balance_log, health_log, minute>>
    /\ UNCHANGED <<omvars, wsvars, sidevars, exitvars>>

\* execute_arbitrage_trade up to its first await: the symbol is not
\* blacklisted and the registry has room; the venues' error counters are
\* tested. The slot is free again once a signal was turned away here.
ExecuteArbitrageTrade(o) ==
    /\ xpc \in {"idle", "ret_errors"}
    /\ opportunity' = o
    /\ xpc' = IF Disabled(o.long_exchange) \/ Disabled(o.short_exchange)
              THEN "ret_errors" ELSE "await_params"
    /\ UNCHANGED <<exchange_errors, endpoint, trade_params, margin, real_balances,
                   balance_log, health_log, minute>>
    /\ UNCHANGED <<omvars, wsvars, sidevars, exitvars>>

\* calculate_minimal_trade_parameters' result for a trade volume within the
\* limit: the same volume on both venues, in tokens at each venue's price.
TradeParams(trade_volume_usdt, price_long, price_short) ==
    [volume_usdt |-> trade_volume_usdt,
     quantity_long |-> trade_volume_usdt \div price_long,
     quantity_short |-> trade_volume_usdt \div price_short]

\* calculate_minimal_trade_parameters returned; the volumes and quantities
\* pass execute_arbitrage_trade's final checks.
ExecuteParams(trade_volume_usdt) ==
    /\ xpc = "await_params"
    /\ trade_params' = TradeParams(trade_volume_usdt, opportunity.long_price,
                                   opportunity.short_price)
    /\ xpc' = "await_margin"
    /\ UNCHANGED <<exchange_errors, endpoint, opportunity, margin, real_balances,
                   balance_log, health_log, minute>>
    /\ UNCHANGED <<omvars, wsvars, sidevars, exitvars>>

\* The two check_real_margin_availability calls returned.
ExecuteMargin(long_answers, short_answers) ==
    /\ xpc = "await_margin"
    /\ LET long_balance == FetchBalance(opportunity.long_exchange, long_answers, 1).balance
           short_balance == FetchBalance(opportunity.short_exchange, short_answers, 1).balance
           margin_ok_long ==
               CheckRealMarginAvailability(long_balance, trade_params.quantity_long)
           margin_ok_short ==
               CheckRealMarginAvailability(short_balance, trade_params.quantity_short)
       IN /\ margin' = [long_free |-> long_balance.free, short_free |-> short_balance.free]
          /\ xpc' = IF ~margin_ok_long \/ ~margin_ok_short
                    THEN "ret_margin" ELSE "await_setup"
    /\ UNCHANGED <<exchange_errors, endpoint, opportunity, trade_params, real_balances,
                   balance_log, health_log, minute>>
    /\ UNCHANGED <<omvars, wsvars, sidevars, exitvars>>

\* set_margin_mode and set_leverage returned (their results are only logged);
\* the two create_limit_order calls are started.
ExecuteSetup ==
    /\ xpc = "await_setup"
    /\ xpc' = "await_orders"
    /\ UNCHANGED <<exchange_errors, endpoint, opportunity, trade_params, margin,
                   real_balances, balance_log, health_log, minute>>
    /\ UNCHANGED <<omvars, wsvars, sidevars, exitvars>>

\* The two create_limit_order calls returned.
ExecuteOrders(long_ok, short_ok) ==
    /\ xpc = "await_orders"
    /\ xpc' = IF long_ok /\ short_ok THEN "ret_opened" ELSE "ret_failed"
    /\ UNCHANGED <<exchange_errors, endpoint, opportunity, trade_params, margin,
                   real_balances, balance_log, health_log, minute>>
    /\ UNCHANGED <<omvars, wsvars, sidevars, exitvars>>

\* One turn of fetch_real_balances' loop, for venue exchange_name.
FetchRealBalances(exchange_name, answers) ==
    IF Disabled(exchange_name)
    THEN /\ real_balances' = [real_balances EXCEPT ![exchange_name] = NoReport]
         /\ UNCHANGED <<exchange_errors, endpoint, xpc, opportunity, trade_params,
                        margin, balance_log, health_log, minute>>
         /\ UNCHANGED <<omvars, wsvars, sidevars, exitvars>>
    ELSE LET fetched == FetchBalance(exchange_name, answers, 1)
             balance_data == fetched.balance
         IN /\ balance_log' = [balance_log EXCEPT ![exchange_name] = fetched.log]
            /\ IF Truthy(balance_data)
               THEN /\ real_balances' = [real_balances EXCEPT ![exchange_name] =
                          [available |-> balance_data.free, real_data |-> TRUE]]
                    /\ exchange_errors' = [exchange_errors EXCEPT ![exchange_name] = 0]
               ELSE /\ real_balances' = [real_balances EXCEPT ![exchange_name] = NoReport]
                    /\ UNCHANGED exchange_errors
            /\ UNCHANGED <<endpoint, xpc, opportunity, trade_params, margin,
                           health_log, minute>>
            /\ UNCHANGED <<omvars, wsvars, sidevars, exitvars>>

\* "datetime.now().minute % 5 == 0".
ProbeDue(m) == m % 5 = 0

\* A probe that re-enables only a venue with money on it.
RestoredStrict(balance) == Truthy(balance) /\ balance.free > 0

\* "balance and balance.get('free', 0) >= 0".
Restored(balance) == Truthy(balance) /\ balance.free >= 0

\* One turn of health_check's loop: check_exchange_health over the venues,
\* then the sleep of health_check_interval seconds. A disabled venue is probed
\* with fetch_balance in the minutes that are multiples of five.
Probed(v) == Disabled(v) /\ ProbeDue(minute)

\* The answers the venues give to the probes of one turn of the health check:
\* a venue that is not probed is not asked.
ProbeAnswers ==
    {answers \in [Venues -> UpAnswers \cup {NoAnswers}] :
        \A v \in Venues :
            answers[v] \in (IF Probed(v) THEN Answers(v) ELSE {NoAnswers})}

CheckExchangeHealth(answers) ==
    LET probed(v) == Probed(v)
        restored(v) == Restored(FetchBalance(v, answers[v], 1).balance)
    IN /\ exchange_errors' = [v \in Venues |->
              IF probed(v) /\ restored(v) THEN 0 ELSE exchange_errors[v]]
       /\ health_log' = [v \in Venues |->
              IF ~probed(v) THEN health_log[v]
              ELSE IF restored(v) THEN "restored" ELSE "unavailable"]
       /\ minute' = (minute + health_check_interval \div 60) % 60
       /\ UNCHANGED <<endpoint, xpc, opportunity, trade_params, margin, real_balances,
                      balance_log>>
       /\ UNCHANGED <<omvars, wsvars, sidevars, exitvars>>

\* execute_arbitrage_trade for one signal.
Executing ==
    \/ \E o \in Opportunities : ExecuteArbitrageTrade(o)
    \/ \E trade_volume_usdt \in Volumes : ExecuteParams(trade_volume_usdt)
    \/ /\ xpc = "await_margin"
       /\ \E long_answers \in Answers(opportunity.long_exchange),
             short_answers \in Answers(opportunity.short_exchange) :
             ExecuteMargin(long_answers, short_answers)
    \/ ExecuteSetup
    \/ \E long_ok \in BOOLEAN, short_ok \in BOOLEAN : ExecuteOrders(long_ok, short_ok)

\* ------------------------------------------------- backup_order_manager.py
\* The classes exchange.create_order raises, with their ccxt base classes.
Raised == {"InsufficientFunds", "NetworkError", "RequestTimeout", "ExchangeError",
           "AuthenticationError", "Exception"}
Bases(error) ==
    CASE error = "InsufficientFunds" -> {"InsufficientFunds", "ExchangeError", "Exception"}
      [] error = "AuthenticationError" -> {"AuthenticationError", "ExchangeError", "Exception"}
      [] error = "RequestTimeout" -> {"RequestTimeout", "NetworkError", "Exception"}
      [] error = "NetworkError" -> {"NetworkError", "Exception"}
      [] error = "ExchangeError" -> {"ExchangeError", "Exception"}
      [] OTHER -> {"Exception"}

\* create_limit_order's except clauses, in the order they are written.
ExceptClauses == <<"InsufficientFunds", "NetworkError", "ExchangeError",
                   "AuthenticationError", "RequestTimeout", "Exception">>
\* The clause that handles error: the first one naming a class of it.
Caught(error) ==
    ExceptClauses[CHOOSE i \in DOMAIN ExceptClauses :
                     /\ ExceptClauses[i] \in Bases(error)
                     /\ \A j \in 1..(i - 1) : ExceptClauses[j] \notin Bases(error)]

\* "await asyncio.sleep(2 ** attempt)"
RECURSIVE RetrySleep(_)
RetrySleep(attempt) == IF attempt = 0 THEN 1 ELSE 2 * RetrySleep(attempt - 1)

\* The venue's side of one exchange.create_order request: the order was
\* accepted when it came back; when the request raised a network error or a
\* timeout the venue may have accepted it before the answer was lost (landed);
\* any other error is the venue's refusal.
Accepted(outcome, landed) ==
    outcome = "order" \/ ("NetworkError" \in Bases(outcome) /\ landed)

\* One call in flight; accepted counts the orders the venue accepted for it.
NoSubmit == [fn |-> "", venue |-> "", st |-> "idle", attempt |-> 0, requests |-> 0,
             slept |-> <<>>, error |-> "", order |-> FALSE, accepted |-> 0]

InitSubmit ==
    /\ connection_status = [v \in Venues |-> TRUE]
    /\ submit = NoSubmit
    /\ message = BaseMessage
    /\ parsed = NoSignal

\* TelegramMonitor.start.handler up to "if result": the text of the event is
\* parsed.
Handler(m) ==
    /\ message' = m
    /\ parsed' = ParseMessage(m)
    /\ UNCHANGED <<connection_status, submit>>
    /\ UNCHANGED <<omvars, wsvars, oldvars, exitvars>>

\* test_connection: the venue's answer sets the connected flag.
TestConnection(v, connected) ==
    /\ submit.st \in {"idle", "returned"}
    /\ connection_status' = [connection_status EXCEPT ![v] = connected]
    /\ connection_status' # connection_status
    /\ UNCHANGED submit
    /\ UNCHANGED <<message, parsed>>
    /\ UNCHANGED <<omvars, wsvars, oldvars, exitvars>>

\* create_limit_order up to its first request: a venue that is not connected
\* gets None and no request.
CreateLimitOrder(v) ==
    /\ submit.st \in {"idle", "returned"}
    /\ submit' = [NoSubmit EXCEPT !.fn = "create_limit_order", !.venue = v,
                                  !.st = IF connection_status[v] THEN "calling"
                                         ELSE "returned"]
    /\ UNCHANGED connection_status
    /\ UNCHANGED <<message, parsed>>
    /\ UNCHANGED <<omvars, wsvars, oldvars, exitvars>>

\* create_limit_order when exchange.create_order answers: the order is
\* returned, or the clause that catches the error retries after a sleep,
\* marks the venue disconnected, or returns None.
LimitOrderAnswer(outcome, landed) ==
    /\ submit.st = "calling"
    /\ submit.fn = "create_limit_order"
    /\ LET sent == [submit EXCEPT !.requests = @ + 1,
                                  !.accepted = IF Accepted(outcome, landed)
                                               THEN @ + 1 ELSE @]
           clause == Caught(outcome)
       IN IF outcome = "order"
          THEN /\ submit' = [sent EXCEPT !.st = "returned", !.order = TRUE]
               /\ UNCHANGED connection_status
          ELSE IF clause \in {"NetworkError", "RequestTimeout"}
          THEN /\ submit' =
                    IF submit.attempt < max_retries - 1
                    THEN [sent EXCEPT !.st = "sleep", !.error = outcome,
                                      !.slept = Append(@, RetrySleep(submit.attempt))]
                    ELSE [sent EXCEPT !.st = "returned", !.error = outcome]
               /\ UNCHANGED connection_status
          ELSE /\ submit' = [sent EXCEPT !.st = "returned", !.error = outcome]
               /\ connection_status' =
                    IF clause = "AuthenticationError"
                    THEN [connection_status EXCEPT ![submit.venue] = FALSE]
                    ELSE connection_status
    /\ UNCHANGED <<message, parsed>>
    /\ UNCHANGED <<omvars, wsvars, oldvars, exitvars>>

\* create_limit_order after its sleep: the next attempt of the loop.
LimitOrderRetry ==
    /\ submit.st = "sleep"
    /\ submit' = [submit EXCEPT !.st = "calling", !.attempt = @ + 1]
    /\ UNCHANGED connection_status
    /\ UNCHANGED <<message, parsed>>
    /\ UNCHANGED <<omvars, wsvars, oldvars, exitvars>>

\* order_manager.py, create_order up to its request.
CreateOrder(v) ==
    /\ submit.st \in {"idle", "returned"}
    /\ submit' = [NoSubmit EXCEPT !.fn = "create_order", !.venue = v, !.st = "calling"]
    /\ UNCHANGED connection_status
    /\ UNCHANGED <<message, parsed>>
    /\ UNCHANGED <<omvars, wsvars, oldvars, exitvars>>

\* order_manager.py, create_order when exchange.create_order answers: the
\* order is returned, or "except Exception" returns None.
OrderAnswer(outcome, landed) ==
    /\ submit.st = "calling"
    /\ submit.fn = "create_order"
    /\ submit' = [submit EXCEPT !.requests = @ + 1, !.st = "returned",
                                !.accepted = IF Accepted(outcome, landed)
                                             THEN @ + 1 ELSE @,
                                !.order = (outcome = "order"),
                                !.error = IF outcome = "order" THEN "" ELSE outcome]
    /\ UNCHANGED connection_status
    /\ UNCHANGED <<message, parsed>>
    /\ UNCHANGED <<omvars, wsvars, oldvars, exitvars>>

\* ------------------------------------------------------------ trade exits
\* "await asyncio.sleep(5)" of monitor_trade
MONITOR_SLEEP == 5

\* The samples a monitor tested before, one more added: whether there was
\* any, and the largest P&L a close at one of them would have booked.
NoPnl == [any |-> FALSE, max |-> 0]
Seen(seen, pnl) == [any |-> TRUE, max |-> IF seen.any THEN Max(seen.max, pnl) ELSE pnl]

NoExitTest == [trade |-> NoTrade, time |-> 0, low_px |-> 0, high_px |-> 0,
               reason |-> "", seen |-> NoPnl]
NoLedger == [daily_pnl |-> 0, pnl_today |-> [v \in Venues |-> 0], log |-> ""]
NoLiquidation == [long |-> "", short |-> "", did |-> ""]

InitExit ==
    /\ exit_test = NoExitTest
    /\ ledger = NoLedger
    /\ liquidation = NoLiquidation

\* The dicts open_arbitrage registers for a signal that bought at 10 and
\* sold at 15: entered at time 0, max_spread_seen the spread of the signal.
ExitTrades ==
    {[NoTrade EXCEPT !.symbol = WsSymbol, !.entry_spread = spread,
                     !.low_exchange = "bybit", !.high_exchange = "mexc",
                     !.entry_buy_price = 10, !.entry_sell_price = 15,
                     !.quantity = 1, !.status = "open",
                     !.max_spread_seen = spread] :
        spread \in {MIN_SPREAD, MAX_ALLOWED_SPREAD}}
\* The quotes get_price answers the monitor with.
ExitPrices == {10, 11, 12, 15}

\* monitor_trade up to its loop: the task holds the dict of its trade id.
MonitorTrade(trade) ==
    /\ exit_test.trade.status = "none"
    /\ exit_test' = [NoExitTest EXCEPT !.trade = trade]
    /\ UNCHANGED <<ledger, liquidation>>
    /\ UNCHANGED <<omvars, wsvars, oldvars, sidevars>>

\* One turn of monitor_trade's loop, both quotes found: the sample is tested
\* time seconds after the entry, and a close reason ends the loop.
MonitorSample(low_px, high_px, time) ==
    /\ exit_test.trade.status = "open"
    /\ exit_test.reason = ""
    /\ time >= exit_test.time
    /\ LET reason == CloseReason(exit_test.trade, low_px, high_px, time)
       IN exit_test' =
             IF reason = ""
             THEN [exit_test EXCEPT
                      !.time = time,
                      !.seen = Seen(@, NetPnl(exit_test.trade, low_px, high_px))]
             ELSE [exit_test EXCEPT !.time = time, !.low_px = low_px,
                                    !.high_px = high_px, !.reason = reason]
    /\ UNCHANGED <<ledger, liquidation>>
    /\ UNCHANGED <<omvars, wsvars, oldvars, sidevars>>

\* The trade dict execute_arbitrage_trade registers for the opportunity it
\* opened: these keys and no other ('quantity' is not one of them).
OldTrade ==
    [long_exchange |-> opportunity.long_exchange,
     short_exchange |-> opportunity.short_exchange,
     entry_long_price |-> opportunity.long_price,
     entry_short_price |-> opportunity.short_price,
     quantity_long |-> trade_params.quantity_long,
     quantity_short |-> trade_params.quantity_short,
     volume_usdt |-> trade_params.volume_usdt,
     status |-> "open"]
\* trade[key] raises KeyError unless the dict has the key.
HasKey(trade, key) == key \in DOMAIN trade

\* get_real_commission_rates' fallback rates, in 1/PnlScale.
CommissionRate(v) == IF v = "bybit" THEN 6 ELSE 4

\* finalize_liquidated_trade's net_pnl, in 1/PnlScale dollars: both legs are
\* booked at 30% against the entry, less the commission on the entries.
LiquidatedNet(trade) ==
    LET gross_pnl == -(3 * (PnlScale \div 10))
                       * (trade.entry_long_price + trade.entry_short_price)
                       * trade.quantity
        total_commission ==
            trade.quantity * trade.entry_long_price * CommissionRate(trade.long_exchange)
            + trade.quantity * trade.entry_short_price * CommissionRate(trade.short_exchange)
    IN gross_pnl - total_commission

\* finalize_trade_closure's net_pnl for the average fill prices of the two
\* orders, in 1/PnlScale dollars.
ClosureNet(trade, long_price, short_price) ==
    LET gross_pnl == ((long_price - trade.entry_long_price)
                      + (trade.entry_short_price - short_price))
                     * trade.quantity * PnlScale
        total_commission ==
            trade.quantity * trade.entry_long_price * CommissionRate(trade.long_exchange)
            + trade.quantity * trade.entry_short_price * CommissionRate(trade.short_exchange)
    IN gross_pnl - total_commission

\* finalize_liquidated_trade on the ledger: the net is added to daily_pnl and
\* to no venue's pnl_today. The first read of trade['quantity'] raises
\* KeyError on a dict without the key; "except Exception" logs it, nothing is
\* booked and the trade stays registered.
FinalizeLiquidatedTrade(trade, led) ==
    IF ~HasKey(trade, "quantity")
    THEN [led EXCEPT !.log = "liquidation_error"]
    ELSE [led EXCEPT !.daily_pnl = @ + LiquidatedNet(trade), !.log = "liquidated"]

\* finalize_trade_closure on the ledger: the net is added to daily_pnl and
\* half of it to the pnl_today of each venue that exchange_balances holds.
\* KeyError as above.
FinalizeTradeClosure(trade, long_price, short_price, led) ==
    IF ~HasKey(trade, "quantity")
    THEN [led EXCEPT !.log = "closure_error"]
    ELSE LET net_pnl == ClosureNet(trade, long_price, short_price)
             pnl_per_exchange == net_pnl \div 2
         IN [led EXCEPT
                !.daily_pnl = @ + net_pnl,
                !.pnl_today =
                    [v \in DOMAIN @ |->
                        @[v] + (IF v = trade.long_exchange THEN pnl_per_exchange ELSE 0)
                             + (IF v = trade.short_exchange THEN pnl_per_exchange ELSE 0)],
                !.log = "closed"]

\* What a position query of one leg meets: the venue reports the position,
\* the venue reports no position, or every attempt of fetch_positions raises
\* (or the venue is not initialised).
PositionAnswers == {"open", "gone", "failed"}
\* fetch_positions: the open positions, [] after its last failed attempt.
FetchPositions(answer) == IF answer = "open" THEN {"position"} ELSE {}
\* check_position_exists: True when a position of the symbol and side is
\* among those fetch_positions returned, else False.
CheckPositionExists(answer) == FetchPositions(answer) # {}
\* check_position_closed: "return not position_exists"
CheckPositionClosed(answer) == ~CheckPositionExists(answer)

\* monitor_liquidation on the open trade, in one step: both position
\* queries, then the emergency close of the leg that is left (its call; the
\* order it would place is not followed), or finalize_liquidated_trade when
\* both legs are reported closed. The function is taken as it is called with
\* a registered trade; check_force_close_conditions, its caller, passes it
\* the trades whose order ids are unset.
MonitorLiquidation(long_answer, short_answer) ==
    /\ xpc = "ret_opened"
    /\ LET long_position_closed == CheckPositionClosed(long_answer)
           short_position_closed == CheckPositionClosed(short_answer)
           did == IF long_position_closed /\ ~short_position_closed
                  THEN "emergency_short"
                  ELSE IF short_position_closed /\ ~long_position_closed
                  THEN "emergency_long"
                  ELSE IF long_position_closed /\ short_position_closed
                  THEN "finalize"
                  ELSE "none"
       IN /\ liquidation' = [long |-> long_answer, short |-> short_answer,
                             did |-> did]
          /\ ledger' = IF did = "finalize"
                       THEN FinalizeLiquidatedTrade(OldTrade, ledger)
                       ELSE ledger
          /\ xpc' = IF did = "finalize" /\ HasKey(OldTrade, "quantity")
                    THEN "idle" ELSE xpc
    /\ UNCHANGED exit_test
    /\ UNCHANGED <<exchange_errors, endpoint, opportunity, trade_params, margin,
                   real_balances, balance_log, health_log, minute>>
    /\ UNCHANGED <<omvars, wsvars, sidevars>>

\* check_real_orders found both orders of the open trade filled:
\* finalize_trade_closure runs with the average fill prices fetch_order
\* reports.
CheckRealOrders(long_price, short_price) ==
    /\ xpc = "ret_opened"
    /\ ledger' = FinalizeTradeClosure(OldTrade, long_price, short_price, ledger)
    /\ xpc' = IF HasKey(OldTrade, "quantity") THEN "idle" ELSE xpc
    /\ UNCHANGED <<exit_test, liquidation>>
    /\ UNCHANGED <<exchange_errors, endpoint, opportunity, trade_params, margin,
                   real_balances, balance_log, health_log, minute>>
    /\ UNCHANGED <<omvars, wsvars, sidevars>>

\* check_daily_reset on a date later than last_reset's: daily_pnl and every
\* pnl_today are set to 0.
CheckDailyReset ==
    /\ ledger' = [daily_pnl |-> 0, pnl_today |-> [v \in DOMAIN ledger.pnl_today |-> 0],
                  log |-> "reset"]
    /\ UNCHANGED <<exit_test, liquidation>>
    /\ UNCHANGED oldvars
    /\ UNCHANGED <<omvars, wsvars, sidevars>>

vars == <<omvars, wsvars, oldvars, sidevars, exitvars>>

Init == InitOM /\ InitWS /\ InitOld /\ InitSubmit /\ InitExit

\* The program: handlers and monitors.
Next == Opening(1..NTasks, Messages, MarketDetails)
        \/ Monitoring(1..NTasks, Prices)

Spec == Init /\ [][Next]_vars

\* The program together with the venues' matching engines: resting orders fill.
NextSettle == Next \/ \E t \in 1..NTasks, leg \in Legs : Fill(t, leg)

SpecSettle == Init /\ [][NextSettle]_vars

\* The program together with the venues' markets: last prices move.
NextLive == Next \/ \E v \in Venues, p \in Prices : MarketMove(v, p)

SpecLive == Init /\ [][NextLive]_vars

\* Two handlers, one losing trade: the first signal's trade is closed at
\* LossPrices while the second signal is being handled.
PairTasks == 1..2
PairMessages == {BaseMessage}
PairMarkets == {[found |-> TRUE, cost_min |-> 4, amount_min |-> 4]}
LossPrices == {1, 5}
NextPair == Opening(PairTasks, PairMessages, PairMarkets)
            \/ Monitoring(PairTasks, LossPrices)

SpecPair == Init /\ [][NextPair]_vars

\* One handler more than the registry may hold, for signals on two symbols,
\* during the seconds before any monitor wakes from its first sleep.
RaceTasks == 1..(MAX_CONCURRENT_TRADES + 1)
RaceMessages == {[BaseMessage EXCEPT !.hash = h] : h \in {<<"FOO">>, <<"BAR">>}}
RaceMarkets == {[found |-> TRUE, cost_min |-> 0, amount_min |-> 0]}
NextRace == Opening(RaceTasks, RaceMessages, RaceMarkets)

SpecRace == Init /\ [][NextRace]_vars

\* The program and its shutdown.
NextStop == Next \/ Stop

SpecStop == Init /\ [][NextStop]_vars

\* Two handlers for signals on one symbol, and trades held past MAX_HOLD_TIME.
\* Every monitor keeps being scheduled and finds both quotes on some tick,
\* every closing create_order call returns, and time passes.
HoldTasks == 1..2
NextHold == Opening(HoldTasks, PairMessages, PairMarkets)
            \/ Monitoring(HoldTasks, Prices)
            \/ Hold
HoldFairness ==
    /\ \A t \in HoldTasks :
          /\ WF_vars(\E low_px \in Prices, high_px \in Prices, sell_price \in Prices :
                        MonitorTick(t, low_px, high_px, sell_price))
          /\ WF_vars(\E sell_ok \in BOOLEAN, buy_ok \in BOOLEAN :
                        CloseOrdersDone(t, sell_ok, buy_ok))
    /\ WF_vars(Hold)

SpecHold == Init /\ [][NextHold]_vars /\ HoldFairness

\* The earlier bot handling one signal while other messages' price requests
\* fail and the balance endpoints come and go.
NextExecute ==
    \/ Executing
    \/ \E v \in Venues : PriceError(v)
    \/ \E v \in Venues : EndpointDown(v)
    \/ \E v \in Venues : EndpointUp(v)

SpecExecute == Init /\ [][NextExecute]_vars

\* The earlier bot's balance loop.
NextBalance ==
    \/ \E v \in Venues : \E answers \in Answers(v) : FetchRealBalances(v, answers)
    \/ \E v \in Venues : PriceError(v)
    \/ \E v \in Venues : EndpointDown(v)
    \/ \E v \in Venues : EndpointUp(v)

SpecBalance == Init /\ [][NextBalance]_vars

\* The earlier bot's health check, started in any minute of the hour, with
\* price errors charged to the venues of HealthVenues, the balance loop and
\* the admission of signals. health_check's loop keeps running.
HealthVenues == {"bybit"}
NextHealth ==
    \/ \E answers \in ProbeAnswers : CheckExchangeHealth(answers)
    \/ \E v \in HealthVenues : \E answers \in Answers(v) : FetchRealBalances(v, answers)
    \/ \E v \in HealthVenues : PriceError(v)
    \/ \E v \in HealthVenues : EndpointDown(v)
    \/ \E v \in HealthVenues : EndpointUp(v)
    \/ \E o \in Opportunities : ExecuteArbitrageTrade(o)
InitHealth == InitOM /\ InitWS /\ InitSubmit /\ InitExit /\ \E m \in 0..59 : InitOldAt(m)
HealthFairness == WF_vars(\E answers \in ProbeAnswers : CheckExchangeHealth(answers))

SpecHealth == InitHealth /\ [][NextHealth]_vars /\ HealthFairness

\* The price stream on its own.
WsPrices == {Min(Prices)}
NextWS == Streaming(WsPrices)

SpecWS == Init /\ [][NextWS]_vars

\* Order submissions of both order managers against venues that answer with
\* an order or raise, and connection tests.
NextSubmit ==
    \/ \E v \in Venues, connected \in BOOLEAN : TestConnection(v, connected)
    \/ \E v \in Venues : CreateLimitOrder(v)
    \/ \E outcome \in Raised \cup {"order"}, landed \in BOOLEAN :
          LimitOrderAnswer(outcome, landed)
    \/ LimitOrderRetry
    \/ \E v \in Venues : CreateOrder(v)
    \/ \E outcome \in Raised \cup {"order"}, landed \in BOOLEAN :
          OrderAnswer(outcome, landed)

SpecSubmit == Init /\ [][NextSubmit]_vars

\* The handler parsing the texts of ParseInputs.
NextParse == \E m \in ParseInputs : Handler(m)

SpecParse == Init /\ [][NextParse]_vars

\* Two handlers for signals on one symbol, in and out of the spread range, a
\* losing trade, and a change of the date.
DayMessages == {BaseMessage, [BaseMessage EXCEPT !.spread = MIN_SPREAD - 1]}
NextDay == Opening(PairTasks, DayMessages, PairMarkets)
           \/ Monitoring(PairTasks, LossPrices)
           \/ Midnight

SpecDay == Init /\ [][NextDay]_vars

\* Two handlers for signals on one symbol, on two venues whose markets differ
\* in minimum amount and in lot step (precision.amount, which open_arbitrage
\* does not read).
LotMarkets == {[found |-> TRUE, cost_min |-> 0, amount_min |-> 3, step |-> 1],
               [found |-> TRUE, cost_min |-> 0, amount_min |-> 2, step |-> 2]}
NextLot == Opening(PairTasks, PairMessages, LotMarkets)
           \/ Monitoring(PairTasks, LossPrices)

SpecLot == Init /\ [][NextLot]_vars

\* One monitor alone: the trades of ExitTrades, sampled after the monitor's
\* sleep and after MAX_HOLD_TIME.
NextExit ==
    \/ \E trade \in ExitTrades : MonitorTrade(trade)
    \/ \E low_px \in ExitPrices, high_px \in ExitPrices,
          time \in {MONITOR_SLEEP, MAX_HOLD_TIME + MONITOR_SLEEP} :
          MonitorSample(low_px, high_px, time)

SpecExit == Init /\ [][NextExit]_vars

\* The earlier bot with the exits of its open trade: the liquidation monitor,
\* the closure of a trade whose orders filled, and the daily reset.
NextUnwind ==
    \/ NextExecute
    \/ \E long_answer \in PositionAnswers, short_answer \in PositionAnswers :
          MonitorLiquidation(long_answer, short_answer)
    \/ \E long_price \in Prices, short_price \in Prices :
          CheckRealOrders(long_price, short_price)
    \/ CheckDailyReset

SpecUnwind == Init /\ [][NextUnwind]_vars

\* ------------------------------------------------------------------ properties
\* The trade dicts held by the registry.
Registered == {trades[active_trades[id]] : id \in DOMAIN active_trades}
\* An opening or closing order of task t that reached a venue.
Submitted(t, leg) == orders[t][leg].st # "none"
\* The base ticker of a normalised symbol.
BaseTicker(symbol) == <<Head(symbol)>>
RECURSIVE SumNet(_)
SumNet(T) == IF T = {} THEN 0
             ELSE LET t == CHOOSE x \in T : TRUE
                  IN trades[t].net_pnl + SumNet(T \ {t})
\* Both opening orders of task t were answered and exactly one was accepted.
OneLegAccepted(t) ==
    /\ orders[t]["buy"].st \notin {"none", "sent"}
    /\ orders[t]["sell"].st \notin {"none", "sent"}
    /\ (orders[t]["buy"].st = "rejected") # (orders[t]["sell"].st = "rejected")
InSpreadRange(spread) == MIN_SPREAD <= spread /\ spread <= MAX_ALLOWED_SPREAD

\* C1: the registry never holds more than MAX_CONCURRENT_TRADES entries,
\* whatever the interleaving of the signal handlers.
RegistryWithinCapacity ==
    Cardinality(DOMAIN active_trades) <= MAX_CONCURRENT_TRADES

\* C2: when exactly one of the two opening orders was accepted, a cancel was
\* issued for the accepted order, no trade exists for the signal (no dict, no
\* registry entry, no monitor task), and daily_pnl holds nothing but the net
\* P&L of closed trades.
OneLegRolledBack ==
    \A t \in Tasks : OneLegAccepted(t) =>
        /\ \A leg \in {"buy", "sell"} :
              orders[t][leg].st # "rejected" => orders[t][leg].cancels = 1
        /\ trades[t] = NoTrade
        /\ mon[t] = "none"
        /\ \A id \in DOMAIN active_trades : active_trades[id] # t
        /\ daily_pnl = SumNet(Tasks)
\* C2's case: the buy order was accepted, the sell order refused, and the buy
\* order is cancelled.
OneLegRolledBackWitness ==
    \E t \in Tasks : /\ pc[t] = "ret_rollback"
                     /\ orders[t]["sell"].st = "rejected"
                     /\ orders[t]["buy"].st = "canceled"
                     /\ orders[t]["buy"].cancels = 1

\* C3: a trade is closed (P&L recorded, ledger updated) only after closing
\* orders were submitted for both legs and both were reported filled.
ClosedOnlyAfterFills ==
    \A t \in Tasks : trades[t].status = "closed" =>
        /\ orders[t]["close_sell"].st = "filled"
        /\ orders[t]["close_buy"].st = "filled"

\* C4: every trade in the registry buys on one venue and sells on another.
DistinctVenues ==
    \A trade \in Registered : trade.low_exchange # trade.high_exchange

\* C5: for every trade in the registry, quantity times price is at most the
\* notional cap on each leg.
NotionalWithinCap ==
    \A trade \in Registered :
        /\ trade.quantity * trade.entry_buy_price <= MAX_MIN_NOTIONAL_USD
        /\ trade.quantity * trade.entry_sell_price <= MAX_MIN_NOTIONAL_USD

\* C6: no opening order reaches a venue for a symbol whose base ticker is in
\* SYMBOL_BLACKLIST.
NoBlacklistedOrder ==
    \A t \in Tasks : \A leg \in {"buy", "sell"} :
        Submitted(t, leg) => BaseTicker(orders[t][leg].symbol) \notin SYMBOL_BLACKLIST

\* C7: a handled signal is turned away by the reported-spread gate exactly when
\* its spread lies outside MIN_SPREAD..MAX_ALLOWED_SPREAD, bounds included, and
\* no order is ever sent for a signal outside that range.
SpreadGateInclusive ==
    \A t \in Tasks :
        /\ pc[t] \notin {"unborn", "start"} =>
              ((pc[t] = "ret_spread") <=> ~InSpreadRange(sig[t].spread))
        /\ (\E leg \in Legs : Submitted(t, leg)) => InSpreadRange(sig[t].spread)
\* C7's case: a signal whose spread is exactly MIN_SPREAD has its orders on
\* the books.
SpreadGateInclusiveWitness ==
    \E t \in Tasks : /\ sig[t].spread = MIN_SPREAD
                     /\ orders[t]["buy"].st = "open"
                     /\ orders[t]["sell"].st = "open"

\* C8: every opening order is priced at its venue's live quote, and the spread
\* between the two live quotes is at least MIN_SPREAD when the orders are sent.
LiveSpreadChecked ==
    \A t \in Tasks : Submitted(t, "buy") /\ Submitted(t, "sell") =>
        LET buy == orders[t]["buy"]
            sell == orders[t]["sell"]
        IN /\ buy.price = buy.live
           /\ sell.price = sell.live
           /\ (sell.live - buy.live) * 1000 >= MIN_SPREAD * buy.live

\* C9: a price returned by get_price was written to the cache within the
\* freshness window.
ReturnedQuoteFresh ==
    (reader.st = "returned" /\ reader.result # 0) => reader.age <= FreshnessWindow

\* C10: no opening order is sent while daily_pnl is at or below -MAX_DAILY_LOSS.
LossFloorRespected ==
    [][\A t \in Tasks :
          (~Submitted(t, "buy") /\ orders'[t]["buy"].st = "sent")
              => daily_pnl > -(MAX_DAILY_LOSS * PnlScale)]_vars

\* The closing orders of the trade of task t were sent to the venues this
\* many times.
ClosingSubmissions(t) ==
    IF Submitted(t, "close_sell") \/ Submitted(t, "close_buy") THEN 1 ELSE 0
\* The fees of a round trip at the claim's rate, in 1/PnlScale dollars.
Fees(quantity, entryLong, entryShort, exitLong, exitShort) ==
    quantity * (entryLong + entryShort + exitLong + exitShort) * CommissionNum

\* The earlier bot has passed its margin check for the signal in hand.
MarginPassed == xpc \in {"await_setup", "await_orders", "ret_opened", "ret_failed"}

\* C11: a signal passes the margin check only if, on each venue, the free
\* balance the check read is at least quantity x price / LEVERAGE.
MarginCoversNotional ==
    MarginPassed =>
        /\ margin.long_free * LEVERAGE
              >= trade_params.quantity_long * opportunity.long_price * BalanceScale
        /\ margin.short_free * LEVERAGE
              >= trade_params.quantity_short * opportunity.short_price * BalanceScale

\* C12: the opening orders are not submitted while the error counter of one
\* of the signal's venues is at or above max_errors_before_disable.
NoOrderOnDisabledVenue ==
    [][(xpc # "await_orders" /\ xpc' = "await_orders") =>
          /\ ~Disabled(opportunity.long_exchange)
          /\ ~Disabled(opportunity.short_exchange)]_vars

\* C13: a trade that has been open for longer than MAX_HOLD_TIME eventually
\* leaves the open state, given that the monitors keep being scheduled and
\* find quotes.
TimeoutEventuallyCloses ==
    \A t \in HoldTasks :
        (trades[t].status = "open" /\ now - trades[t].entry_time > MAX_HOLD_TIME)
            ~> (trades[t].status # "open")

\* C14: a monitor closes a trade for the target-spread reason only when the
\* spread of its sample, (short price - long price) / long price, is at most
\* CLOSE_SPREAD.
TargetSpreadCloseIff ==
    \A t \in Tasks :
        closing[t].reason = "spread_collapse" =>
            (closing[t].high_px - closing[t].low_px) * 1000
                <= CLOSE_SPREAD * closing[t].low_px

TerminalLeavesRegistry ==
    \A trade \in Registered : trade.status \notin {"closed", "error_closing"}

\* C17: a trade is put in error over a refused closing order only after its
\* closing orders were submitted more than once.
ClosingRetriedBeforeError ==
    \A t \in Tasks :
        (/\ trades[t].status = "error_closing"
         /\ \E leg \in {"close_sell", "close_buy"} : orders[t][leg].st = "rejected")
            => ClosingSubmissions(t) > 1

\* C18: once the exchange connections are closed, no trade is open.
NoOpenTradeAfterStop ==
    om_exchanges = {} => \A t \in Tasks : trades[t].status # "open"

\* C19: a balance fetch that exhausted its retries is not reported by the
\* balance loop as real data.
FailedFetchNotSuccess ==
    \A v \in Venues :
        balance_log[v] = "exhausted" => ~real_balances[v].real_data

\* C20: a disabled venue whose balance endpoint answers is eventually
\* re-enabled, its error counter reset to 0.
DisabledVenueReenabled ==
    \A v \in HealthVenues :
        (Disabled(v) /\ endpoint[v]) ~> (exchange_errors[v] = 0)
\* C20's case: a probe of the health check found the venue restored, the
\* balance loop reports the venue's balance again, and a signal that buys on
\* the venue has passed the error-counter test.
DisabledVenueReenabledWitness ==
    \E v \in HealthVenues :
        /\ health_log[v] = "restored"
        /\ endpoint[v]
        /\ exchange_errors[v] = 0
        /\ real_balances[v].real_data
        /\ xpc = "await_params"
        /\ opportunity.long_exchange = v

\* C21: each venue has exactly one watch task for a subscribed symbol while
\* the manager runs, and none otherwise.
OneWatchTaskPerVenue ==
    \A v \in Venues :
        watch[v].tasks = IF WsSymbol \in watch_tasks /\ v \in exchanges THEN 1 ELSE 0
\* C21's case: a get_price call returned a price of a subscribed symbol that
\* the venue's one watch task wrote.
OneWatchTaskPerVenueWitness ==
    /\ reader.st = "returned"
    /\ reader.result # 0
    /\ \A v \in Venues : watch[v].tasks = 1

MissingOnlyAfterRestFallback ==
    (reader.st = "returned" /\ reader.result = 0) => reader.fetches = 1

\* C24: a submission that returned after an authentication error has left its
\* venue marked disconnected.
AuthFailureDisconnects ==
    (submit.st = "returned" /\ submit.error = "AuthenticationError") =>
        ~connection_status[submit.venue]

\* C25: a submission that returned after a network error or a timeout has
\* sent max_retries requests and slept 1 s, then 2 s, between them.
TransientFailureRetried ==
    (submit.st = "returned" /\ submit.error \in {"NetworkError", "RequestTimeout"}) =>
        /\ submit.requests = max_retries
        /\ submit.slept = <<1, 2>>

\* C26: the two opening orders of execute_arbitrage_trade, once submitted,
\* carry one quantity, which is the quantity of the registered trade.
BothLegsSameQuantity ==
    xpc \in {"await_orders", "ret_opened"} =>
        trade_params.quantity_long = trade_params.quantity_short

\* C27: of two handler tasks created within one second for the same message
\* text, at most one submits opening orders.
DuplicateMessageOnePair ==
    \A t, u \in Tasks :
        (t # u /\ now = 0 /\ sig[t] # NoSignal /\ sig[t] = sig[u]) =>
            ~(Submitted(t, "buy") /\ Submitted(t, "sell")
              /\ Submitted(u, "buy") /\ Submitted(u, "sell"))

\* C28: a message that yields a signal holds a spread token, a long-venue
\* line and a short-venue line with their prices, and not the word 'aligned'.
SignalOnlyFromCleanMessage ==
    parsed.ok => /\ {"Spread", "Long", "Short"} \subseteq message.tokens
                 /\ "aligned" \notin message.tokens

\* The daily loss has reached its floor.
DailyLossReached == daily_pnl <= -(MAX_DAILY_LOSS * PnlScale)

\* C29: a signal handled while the daily loss is at its floor is rejected by
\* the daily-loss check, which comes before the spread-range check, whatever
\* its spread.
DailyLossLabelBeforeSpread ==
    [][\A t \in Tasks :
          (pc[t] = "start" /\ pc'[t] # "start" /\ DailyLossReached) =>
              pc'[t] = "ret_conditions"]_vars

\* C30: a signal handled on a later date than every trade so far, no trade
\* having been open when the date changed, is not rejected by the admission
\* test when the registry has room and the symbol is not blacklisted.
NextDayAdmits ==
    [][\A t \in Tasks :
          (/\ pc[t] = "start"
           /\ SpreadGate(sig[t].spread)
           /\ \A u \in Tasks : trades[u].status # "none" =>
                   UtcDate(trades[u].entry_time) < UtcDate(now)
           /\ Cardinality(DOMAIN active_trades) < MAX_CONCURRENT_TRADES
           /\ sig[t].symbol \notin SYMBOL_BLACKLIST
           /\ pc'[t] # "start") =>
              pc'[t] # "ret_conditions"]_vars

\* C32: the exit tests are tried in the order target spread, timeout,
\* trailing stop; a close decided on a sample that meets the target-spread
\* test (by the spread of the sample, short minus long over long, and by
\* monitor_trade's own current_spread) is recorded with the target-spread
\* reason, also when the trade is past MAX_HOLD_TIME.
TargetSpreadBeforeTimeout ==
    \A t \in Tasks :
        (/\ mon[t] = "await_close"
         /\ (closing[t].high_px - closing[t].low_px) * 1000
                <= CLOSE_SPREAD * closing[t].low_px
         /\ (closing[t].low_px - closing[t].high_px) * 1000
                < CLOSE_SPREAD * closing[t].high_px)
            => closing[t].reason = "spread_collapse"

\* C36: once open_arbitrage has returned through its rollback, without
\* registering a trade, neither opening order it placed rests on a venue.
NoLiveOrderAfterRollback ==
    \A t \in Tasks :
        pc[t] = "ret_rollback" =>
            \A leg \in {"buy", "sell"} : orders[t][leg].st # "open"

\* C37: every trade that is open, its opening orders having been accepted,
\* is the trade the registry holds under its trade id: no two trades share
\* an id, and none is overwritten by a later registration.
OwnRegistryEntry ==
    \A t \in Tasks :
        trades[t].status = "open" =>
            /\ IdOf(t) \in DOMAIN active_trades
            /\ active_trades[IdOf(t)] = t

\* A closing order of trade t that the venue accepted.
CloseAccepted(t, leg) == orders[t][leg].st \in {"open", "filled"}

\* C39: a trade that close_arbitrage left in the error state has a closing
\* order accepted on both legs or on neither.
ErrorClosingLegsAlike ==
    \A t \in Tasks :
        trades[t].status = "error_closing" =>
            (CloseAccepted(t, "close_sell") <=> CloseAccepted(t, "close_buy"))

\* C38: closing orders are submitted for a trade at most once over its life:
\* no step sends a closing order for a trade whose closing order on that leg
\* was already sent, whichever monitor asks for the close.
OneClosingPair ==
    [][\A t \in Tasks, leg \in {"close_sell", "close_buy"} :
          orders[t][leg].st # "none" =>
              (orders'[t][leg].st = "sent" => orders'[t][leg] = orders[t][leg])]_vars

\* Two monitors looked up one trade; its closing orders were accepted for the
\* first request and the second request was refused.
OneClosingPairWitness ==
    \E t, u \in Tasks :
        /\ t # u
        /\ trades[t].status = "open"
        /\ IdOf(t) \in DOMAIN active_trades
        /\ active_trades[IdOf(t)] = u
        /\ mon[t] = "ended"
        /\ trades[u].status = "closed"
        /\ CloseAccepted(u, "close_sell")
        /\ CloseAccepted(u, "close_buy")

\* C35: the quantity of the two opening orders is at least the minimum
\* amount of each venue's market and a multiple of the coarser of the two
\* lot steps, and is the same on both legs.
QuantityMeetsLot ==
    [][\A t \in Tasks, low_mkt \in LotMarkets, high_mkt \in LotMarkets :
          (MarketsDone(t, low_mkt, high_mkt) /\ pc'[t] = "await_orders") =>
              LET quantity == orders'[t]["buy"].qty
                  step == Max(low_mkt.step, high_mkt.step)
              IN /\ orders'[t]["sell"].qty = quantity
                 /\ quantity >= low_mkt.amount_min
                 /\ quantity >= high_mkt.amount_min
                 /\ quantity % step = 0]_vars

\* C40: one call of create_limit_order has at most one order accepted by the
\* venue, retries included.
OneOrderPerCall ==
    submit.fn = "create_limit_order" => submit.accepted <= 1

\* C31: a monitor closes for the trailing-stop reason only when the trailing
\* stop is enabled and the P&L at its sample is no more than the largest P&L
\* at a sample it tested on an earlier tick (the kept share of the peak is at
\* most the peak).
TrailingStopBelowPeak ==
    exit_test.reason = "trailing_stop" =>
        /\ TRAILING_STOP_ENABLED
        /\ exit_test.seen.any
        /\ NetPnl(exit_test.trade, exit_test.low_px, exit_test.high_px)
               <= exit_test.seen.max

\* The sum of the venues' pnl_today.
RECURSIVE SumToday(_)
SumToday(V) ==
    IF V = {} THEN 0
    ELSE LET v == CHOOSE x \in V : TRUE
         IN ledger.pnl_today[v] + SumToday(V \ {v})

====
